---- MODULE Spec2Model ----
(***************************************************************************)
(* Model of bullet.py, a terminal outline editor.                          *)
(*                                                                         *)
(* A line of the document is a sequence of one-character strings; the      *)
(* document (bullets) is a sequence of lines.  Python indices are 0-based  *)
(* and may be negative; the operators PyOk / PyPos translate them to the   *)
(* 1-based positions of TLA+ sequences, and an index Python would reject   *)
(* with IndexError is reported through the err field of a result.          *)
(***************************************************************************)
EXTENDS Integers, Sequences, FiniteSets, TLC

VARIABLES
    file,      \* text stored in the document file (a sequence of characters)
    pc,        \* position of main: "load", "loop" (the pass has drawn the
               \* document and waits in getch), "invalid", "error", "done",
               \* "edited" (as "loop", after the one edit of a single-edit
               \* run), or of a stand-alone call: "window", "windowed"
    bullets,   \* main's list of lines
    x,         \* cursor.x, the column
    y,         \* cursor.y, the row
    errline,   \* line number carried by FileValidationError (0: none raised)
    height,    \* make_printable_sublist: argument height; in a session,
               \* stdscr.getmaxyx()[0] - 1
    lst,       \* make_printable_sublist: argument lst
    cursor,    \* make_printable_sublist: argument cursor
    ret,       \* make_printable_sublist: returned (sublist, cursor)
    drawn      \* print_bullets: the rows the last pass wrote to the screen
               \* and the cells it wrote with A_REVERSE, as <<row, col>>

vars == <<file, pc, bullets, x, y, errline, height, lst, cursor, ret, drawn>>

-----------------------------------------------------------------------------
(* Bounds of the model *)

MaxRaw == 7        \* longest file loaded when the document is not edited
MaxFile == 2       \* longest file loaded by an editing session
MaxDoc == 6        \* longest document an editing session grows, as file text
MaxX == 8          \* largest absolute value of the cursor column explored
MaxStep == 10      \* largest step requested of a cursor movement
MaxTotal == 6      \* longest list handed to make_printable_sublist
MaxHeight == 7     \* largest height handed to make_printable_sublist
MaxFlat == 5       \* longest file loaded by a session of indent and dedent
MaxDeep == 9       \* longest document that session indents to, as file text
MaxPad == 7        \* deepest indentation of a single line that is drawn
MaxBody == 3       \* longest text after the indentation of that line

(* Program constants *)

INDENT == 2

NL == "\n"
Chars == {" ", "-", "a", NL}        \* characters of a document text
TypedChars == {"a"}                 \* characters a key press can insert
Whitespace == {" ", NL}             \* what str.strip / str.lstrip remove

-----------------------------------------------------------------------------
(* Python built-ins *)

Min(a, b) == IF a <= b THEN a ELSE b
Max(a, b) == IF a >= b THEN a ELSE b

\* s[i:] and s[:i] for i >= 0 (slices never raise; they stop at the end of s)
Drop(s, i) == SubSeq(s, Min(i, Len(s)) + 1, Len(s))
Take(s, i) == SubSeq(s, 1, Min(i, Len(s)))

\* seq[i] is defined for -len <= i < len; PyPos is its 1-based position
PyOk(seq, i) == -Len(seq) <= i /\ i < Len(seq)
PyPos(seq, i) == IF i < 0 THEN Len(seq) + i + 1 ELSE i + 1
PyGet(seq, i) == seq[PyPos(seq, i)]
PySet(seq, i, v) == [seq EXCEPT ![PyPos(seq, i)] = v]

\* list.insert(i, v): a negative i counts from the end, and i is then cut
\* to 0..len, so insert never raises
list_insert(seq, i, v) ==
    LET j == IF i < 0 THEN Max(i + Len(seq), 0) ELSE Min(i, Len(seq))
    IN  Take(seq, j) \o <<v>> \o Drop(seq, j)

\* list.pop(i) for an index that PyOk accepts
list_pop(seq, i) ==
    LET p == PyPos(seq, i)
    IN  SubSeq(seq, 1, p - 1) \o SubSeq(seq, p + 1, Len(seq))

RECURSIVE lstrip(_)
lstrip(s) ==
    IF s = <<>> THEN <<>>
    ELSE IF Head(s) \in Whitespace THEN lstrip(Tail(s))
    ELSE s

RECURSIVE rstrip(_)
rstrip(s) ==
    IF s = <<>> THEN <<>>
    ELSE IF s[Len(s)] \in Whitespace THEN rstrip(SubSeq(s, 1, Len(s) - 1))
    ELSE s

strip(s) == rstrip(lstrip(s))

startswith(s, c) == s # <<>> /\ Head(s) = c

\* data.split("\n")
RECURSIVE split(_)
split(data) ==
    IF \A i \in 1..Len(data) : data[i] # NL THEN <<data>>
    ELSE LET i == CHOOSE k \in 1..Len(data) :
                      data[k] = NL /\ \A j \in 1..(k - 1) : data[j] # NL
         IN  <<SubSeq(data, 1, i - 1)>> \o split(SubSeq(data, i + 1, Len(data)))

\* "\n".join(bullets)
RECURSIVE join(_)
join(lines) ==
    IF lines = <<>> THEN <<>>
    ELSE IF Len(lines) = 1 THEN lines[1]
    ELSE lines[1] \o <<NL>> \o join(Tail(lines))

-----------------------------------------------------------------------------
(* Helpers of bullet.py *)

get_whitespace_len(bullet) == Len(bullet) - Len(lstrip(bullet))

clamp(counter, minimum, maximum) == Min(Max(counter, minimum), maximum - 1)

\* A variant of validate_loop that does not skip empty lines
RECURSIVE validate_loop_no_skip(_, _)
validate_loop_no_skip(lines, index) ==
    IF index > Len(lines) THEN 0
    ELSE IF ~startswith(strip(lines[index]), "-") THEN index
    ELSE validate_loop_no_skip(lines, index + 1)

\* The loop of validate_file from line `index` on: the number of the first
\* line that makes it raise, 0 if it runs to the end
RECURSIVE validate_loop(_, _)
validate_loop(lines, index) ==
    IF index > Len(lines) THEN 0
    ELSE IF lines[index] = <<>> THEN validate_loop(lines, index + 1)
    ELSE IF ~startswith(strip(lines[index]), "-") THEN index
    ELSE validate_loop(lines, index + 1)

validate_file(data) ==
    LET raised == validate_loop(split(data), 1)
    IN  IF raised # 0
        THEN [raised |-> TRUE, line |-> raised, bullets |-> <<>>]
        ELSE [raised |-> FALSE, line |-> 0, bullets |-> split(data)]

-----------------------------------------------------------------------------
(* class Cursor.  A method returns the new (x, y); err is TRUE when the     *)
(* method raises IndexError at a subscript bullets[...].                    *)

Raise == [err |-> TRUE, x |-> 0, y |-> 0]
At(cx, cy) == [err |-> FALSE, x |-> cx, y |-> cy]

\* Cursor.get_nontext_length with self.y = cy, for a row PyOk accepts
get_nontext_length(bs, cy) == get_whitespace_len(PyGet(bs, cy)) + 2

right(bs, cx, cy, n) ==
    IF ~PyOk(bs, cy) THEN Raise
    ELSE LET length == Len(PyGet(bs, cy))
             characters == clamp(n, 1, length - 1)
         IN  IF cx + characters <= length - 1 THEN At(cx + characters, cy)
             ELSE IF cy + 1 >= Len(bs) THEN At(cx, cy)
             ELSE IF ~PyOk(bs, cy + 1) THEN Raise
             ELSE At(Max(get_nontext_length(bs, cy + 1), 0), cy + 1)

\* A variant of left that enters the previous line one column past its last
\* offset
left_past_end(bs, cx, cy, n) ==
    IF ~PyOk(bs, cy) THEN Raise
    ELSE LET length == Len(PyGet(bs, cy))
             characters == clamp(n, 1, length - 1)
         IN  IF cx - characters >= get_nontext_length(bs, cy)
             THEN At(cx - characters, cy)
             ELSE IF cy - 1 < 0 THEN At(cx, cy)
             ELSE IF ~PyOk(bs, cy - 1) THEN Raise
             ELSE At(Len(PyGet(bs, cy - 1)), cy - 1)

\* The step right and left use for a requested step of n: the first
\* statement of both methods
clamped_characters(bs, cy, n) == clamp(n, 1, Len(PyGet(bs, cy)) - 1)

left(bs, cx, cy, n) ==
    IF ~PyOk(bs, cy) THEN Raise
    ELSE LET length == Len(PyGet(bs, cy))
             characters == clamp(n, 1, length - 1)
         IN  IF cx - characters >= get_nontext_length(bs, cy)
             THEN At(cx - characters, cy)
             ELSE IF cy - 1 < 0 THEN At(cx, cy)
             ELSE IF ~PyOk(bs, cy - 1) THEN Raise
             ELSE At(Len(PyGet(bs, cy - 1)) - 1, cy - 1)

up(bs, cx, cy, n) ==
    IF cy - n < 0 THEN At(cx, cy)
    ELSE IF ~PyOk(bs, cy - n) THEN Raise
    ELSE At(clamp(cx, get_nontext_length(bs, cy - n), Len(PyGet(bs, cy - n))),
            cy - n)

down(bs, cx, cy, n) ==
    IF cy + n >= Len(bs) THEN At(cx, cy)
    ELSE IF ~PyOk(bs, cy + n) THEN Raise
    ELSE At(clamp(cx, get_nontext_length(bs, cy + n), Len(PyGet(bs, cy + n))),
            cy + n)

-----------------------------------------------------------------------------
(* Edit operations.  Each returns the new (bullets, x, y); err is TRUE when *)
(* the operation raises IndexError, which it does before changing anything. *)

RaiseEdit == [err |-> TRUE, bullets |-> <<>>, x |-> 0, y |-> 0]
Edited(bs, cx, cy) == [err |-> FALSE, bullets |-> bs, x |-> cx, y |-> cy]

Spaces(n) == [i \in 1..n |-> " "]

add_bullet(bs, cx, cy) ==
    IF ~PyOk(bs, cy) THEN RaiseEdit
    ELSE LET bullet == PyGet(bs, cy)
             new == Take(bullet, get_whitespace_len(bullet) + 2) \o <<" ">>
         IN  Edited(list_insert(bs, cy + 1, new), cx, cy + 1)

\* A variant of indent that leaves the cursor column where it was
indent_keeping_column(bs, cx, cy) ==
    IF ~PyOk(bs, cy) THEN RaiseEdit
    ELSE Edited(PySet(bs, cy, Spaces(INDENT) \o PyGet(bs, cy)), cx, cy)

indent(bs, cx, cy) ==
    IF ~PyOk(bs, cy) THEN RaiseEdit
    ELSE Edited(PySet(bs, cy, Spaces(INDENT) \o PyGet(bs, cy)), cx + INDENT, cy)

\* A variant of dedent without the test of the indentation
dedent_unguarded(bs, cx, cy) ==
    IF ~PyOk(bs, cy) THEN RaiseEdit
    ELSE Edited(PySet(bs, cy, Drop(PyGet(bs, cy), INDENT)), cx - INDENT, cy)

\* A variant of dedent that removes a single space
dedent_one_space(bs, cx, cy) ==
    IF ~PyOk(bs, cy) THEN RaiseEdit
    ELSE IF get_whitespace_len(PyGet(bs, cy)) > 0
         THEN Edited(PySet(bs, cy, Drop(PyGet(bs, cy), 1)), cx - INDENT, cy)
         ELSE Edited(bs, cx, cy)

dedent(bs, cx, cy) ==
    IF ~PyOk(bs, cy) THEN RaiseEdit
    ELSE IF get_whitespace_len(PyGet(bs, cy)) > 0
         THEN Edited(PySet(bs, cy, Drop(PyGet(bs, cy), INDENT)), cx - INDENT, cy)
         ELSE Edited(bs, cx, cy)

delete(bs, cx, cy) ==
    IF ~PyOk(bs, cy) THEN RaiseEdit
    ELSE Edited(list_pop(bs, cy), cx, cy - 1)

\* main, the backspace branch
backspace(bs, cx, cy) ==
    IF cx <= 0 THEN Edited(bs, cx, cy)
    ELSE IF ~PyOk(bs, cy) THEN RaiseEdit
    ELSE LET current_row == PyGet(bs, cy)
         IN  IF ~PyOk(current_row, cx - 1) THEN RaiseEdit
             ELSE Edited(PySet(bs, cy, list_pop(current_row, cx - 1)), cx - 1, cy)

\* main, the branch of the typable characters
insert_char(bs, cx, cy, ch) ==
    IF ~PyOk(bs, cy) THEN RaiseEdit
    ELSE LET current_row == list_insert(PyGet(bs, cy), cx, ch)
         IN  Edited(PySet(bs, cy, current_row),
                    IF cx < Len(current_row) THEN cx + 1 ELSE cx, cy)

\* A variant of update_file that ends the text with a line break
update_file_newline_at_end(bs) == join(bs) \o <<NL>>

\* update_file with save = TRUE: the text written to the file
update_file(bs) == join(bs)

-----------------------------------------------------------------------------
(* The viewport *)

\* lst[start:end] for 0 <= start and 0 <= end
Slice(seq, start, end) == SubSeq(seq, Min(start, Len(seq)) + 1, Min(end, Len(seq)))

\* A variant of make_printable_sublist that starts the window a whole height
\* above the cursor instead of half a height
make_printable_sublist_above(h, l, c) ==
    IF Len(l) < h THEN [sublist |-> l, cursor |-> c]
    ELSE LET start0 == Max(0, c - h)
             end0 == Min(Len(l), start0 + h)
             short == end0 - start0 < h
             end == IF short /\ start0 = 0 THEN Min(Len(l), h) ELSE end0
             start == IF short /\ start0 # 0 THEN Max(0, end0 - h) ELSE start0
         IN  [sublist |-> Slice(l, start, end), cursor |-> c - start]

\* A variant of make_printable_sublist that leaves a window cut short by the
\* end of the list as it is
make_printable_sublist_cut(h, l, c) ==
    IF Len(l) < h THEN [sublist |-> l, cursor |-> c]
    ELSE LET start == Max(0, c - (h \div 2))
             end == Min(Len(l), start + h)
         IN  [sublist |-> Slice(l, start, end), cursor |-> c - start]

make_printable_sublist(h, l, c) ==
    IF Len(l) < h THEN [sublist |-> l, cursor |-> c]
    ELSE LET start0 == Max(0, c - (h \div 2))
             end0 == Min(Len(l), start0 + h)
             short == end0 - start0 < h
             end == IF short /\ start0 = 0 THEN Min(Len(l), h) ELSE end0
             start == IF short /\ start0 # 0 THEN Max(0, end0 - h) ELSE start0
         IN  [sublist |-> Slice(l, start, end), cursor |-> c - start]

-----------------------------------------------------------------------------
(* Drawing.  The three glyphs are written by their code points: the bullet, *)
(* the white bullet and the black small square.  A screen is the rows       *)
(* written, from row 0, and the cells written with A_REVERSE.               *)

symbols == <<"U+2022", "U+25E6", "U+25AA">>

\* str.replace(old, new, 1) for a one-character old
replace_first(str, old, new) ==
    LET hits == {i \in 1..Len(str) : str[i] = old}
    IN  IF hits = {} THEN str
        ELSE [str EXCEPT ![CHOOSE i \in hits : \A j \in hits : i <= j] = new]

\* str.replace(old, new) for a one-character old
replace_every(str, old, new) ==
    [i \in 1..Len(str) |-> IF str[i] = old THEN new ELSE str[i]]

\* A variant of format_bullet that replaces every marker character
format_bullet_every_marker(bullet) ==
    replace_every(bullet, "-",
        symbols[((get_whitespace_len(bullet) \div INDENT) % Len(symbols)) + 1])

format_bullet(bullet) ==
    replace_first(bullet, "-",
        symbols[((get_whitespace_len(bullet) \div INDENT) % Len(symbols)) + 1])

\* print_bullets on a screen of h + 1 rows
print_bullets(h, bs, cx, cy) ==
    LET bullets_list == make_printable_sublist(h, bs, cy).sublist
        written == [r \in 1..Len(bullets_list) |-> format_bullet(bullets_list[r])]
    IN  [rows |-> written,
         reversed |-> {cell \in UNION {{<<r, c>> : c \in 0..(Len(written[r + 1]) - 1)}
                                          : r \in 0..(Len(written) - 1)} :
                          cell[1] = cy /\ cell[2] = cx}]

-----------------------------------------------------------------------------
(* The editor session: main *)

Texts(n) == UNION {[1..k -> Chars] : k \in 0..n}

NoCall == [sublist |-> <<>>, cursor |-> 0]
NotDrawn == [rows |-> <<>>, reversed |-> {}]

\* The heights print_bullets hands to make_printable_sublist: of every
\* terminal of up to MaxHeight + 1 rows, and of the tallest of them alone
Heights == 0..MaxHeight
OneScreen == {MaxHeight}

Loading(texts, heights) ==
    /\ file \in texts
    /\ pc = "load"
    /\ bullets = <<>>
    /\ x = 0
    /\ y = 0
    /\ errline = 0
    /\ height \in heights
    /\ lst = <<>>
    /\ cursor = 0
    /\ ret = NoCall
    /\ drawn = NotDrawn

Init == Loading(Texts(MaxFile), OneScreen)

\* The part of the state space explored: documents of at most MaxDoc
\* characters and columns of absolute value at most MaxX
ColumnWithin(cx) == -MaxX <= cx /\ cx <= MaxX
Within(bs, cx) == Len(join(bs)) <= MaxDoc /\ ColumnWithin(cx)

\* main, line 230 when validate_file raises: the session never opens
LoadInvalid ==
    /\ pc = "load"
    /\ validate_file(file).raised
    /\ pc' = "invalid"
    /\ errline' = validate_file(file).line
    /\ UNCHANGED <<file, bullets, x, y, height, lst, cursor, ret, drawn>>

\* main, lines 230-231, and the first pass of the loop up to its getch: the
\* document is drawn as loaded
LoadOk ==
    /\ pc = "load"
    /\ ~validate_file(file).raised
    /\ bullets' = validate_file(file).bullets
    /\ x' = get_whitespace_len(validate_file(file).bullets[1]) + 2
    /\ y' = 0
    /\ drawn' = print_bullets(height, bullets', x', y')
    /\ pc' = "loop"
    /\ UNCHANGED <<file, errline, height, lst, cursor, ret>>

\* From one getch to the next: the key is handled, the handler returning r,
\* and the next pass draws the document before it waits for a key
Handled(r) ==
    /\ pc = "loop"
    /\ IF r.err
       THEN pc' = "error" /\ UNCHANGED <<bullets, x, y, drawn>>
       ELSE /\ Within(r.bullets, r.x)
            /\ bullets' = r.bullets
            /\ x' = r.x
            /\ y' = r.y
            /\ drawn' = print_bullets(height, r.bullets, r.x, r.y)
            /\ pc' = "loop"
    /\ UNCHANGED <<file, errline, height, lst, cursor, ret>>

\* From one getch to the next: a cursor key is handled, the movement
\* returning r, and the next pass draws the document
Moved(r) ==
    /\ pc = "loop"
    /\ IF r.err
       THEN pc' = "error" /\ UNCHANGED <<x, y, drawn>>
       ELSE /\ ColumnWithin(r.x)
            /\ x' = r.x
            /\ y' = r.y
            /\ drawn' = print_bullets(height, bullets, r.x, r.y)
            /\ pc' = "loop"
    /\ UNCHANGED <<file, bullets, errline, height, lst, cursor, ret>>

KeyDedent == Handled(dedent(bullets, x, y))
KeyEnter == Handled(add_bullet(bullets, x, y))
KeyTab == Handled(indent(bullets, x, y))
KeyDelete == Handled(delete(bullets, x, y))
KeyUp == Moved(up(bullets, x, y, 1))
KeyDown == Moved(down(bullets, x, y, 1))
KeyLeft == Moved(left(bullets, x, y, 1))
KeyRight == Moved(right(bullets, x, y, 1))
KeyBackspace == Handled(backspace(bullets, x, y))
KeyChar == \E ch \in TypedChars : Handled(insert_char(bullets, x, y, ch))

\* quit_program
Quit ==
    /\ pc = "loop"
    /\ file' = update_file(bullets)
    /\ pc' = "done"
    /\ UNCHANGED <<bullets, x, y, errline, height, lst, cursor, ret, drawn>>

Next ==
    \/ LoadInvalid
    \/ LoadOk
    \/ KeyDedent
    \/ KeyEnter
    \/ KeyTab
    \/ KeyDelete
    \/ KeyUp
    \/ KeyDown
    \/ KeyLeft
    \/ KeyRight
    \/ KeyBackspace
    \/ KeyChar
    \/ Quit

Spec == Init /\ [][Next]_vars

-----------------------------------------------------------------------------
(* The loader alone *)

NextLoad == LoadInvalid \/ LoadOk

InitRaw == Loading(Texts(MaxRaw), OneScreen)

SpecLoad == InitRaw /\ [][NextLoad]_vars

-----------------------------------------------------------------------------
(* The Cursor methods with any step, on a loaded document that is not edited *)

MoveRight(n) == Moved(right(bullets, x, y, n))
MoveLeft(n) == Moved(left(bullets, x, y, n))
MoveUp(n) == Moved(up(bullets, x, y, n))
MoveDown(n) == Moved(down(bullets, x, y, n))

Steps == 1..MaxStep

NextMove ==
    \/ LoadInvalid
    \/ LoadOk
    \/ \E n \in Steps : MoveRight(n)
    \/ \E n \in Steps : MoveLeft(n)
    \/ \E n \in Steps : MoveUp(n)
    \/ \E n \in Steps : MoveDown(n)

SpecMove == InitRaw /\ [][NextMove]_vars

-----------------------------------------------------------------------------
(* make_printable_sublist alone, on every list, height and cursor row *)

Numbered(n) == [i \in 1..n |-> i]

InitWindow ==
    /\ file = <<>>
    /\ pc = "window"
    /\ bullets = <<>>
    /\ x = 0
    /\ y = 0
    /\ errline = 0
    /\ height \in 0..MaxHeight
    /\ lst \in {Numbered(n) : n \in 0..MaxTotal}
    /\ cursor \in -1..(Len(lst) - 1)
    /\ ret = NoCall
    /\ drawn = NotDrawn

Window ==
    /\ pc = "window"
    /\ ret' = make_printable_sublist(height, lst, cursor)
    /\ pc' = "windowed"
    /\ UNCHANGED <<file, bullets, x, y, errline, height, lst, cursor, drawn>>

NextWindow == Window

SpecWindow == InitWindow /\ [][NextWindow]_vars

-----------------------------------------------------------------------------
(* A session of indent, dedent and the two vertical movements, which can  *)
(* indent a line several levels deep                                      *)

InitFlat == Loading(Texts(MaxFlat), OneScreen)

\* From one getch to the next: the tab key or the shift-tab key is handled,
\* the handler returning r, and the next pass draws the document
Shifted(r) ==
    /\ pc = "loop"
    /\ IF r.err
       THEN pc' = "error" /\ UNCHANGED <<bullets, x, y, drawn>>
       ELSE /\ Len(join(r.bullets)) <= MaxDeep
            /\ ColumnWithin(r.x)
            /\ bullets' = r.bullets
            /\ x' = r.x
            /\ y' = r.y
            /\ drawn' = print_bullets(height, r.bullets, r.x, r.y)
            /\ pc' = "loop"
    /\ UNCHANGED <<file, errline, height, lst, cursor, ret>>

ShiftRight == Shifted(indent(bullets, x, y))
ShiftLeft == Shifted(dedent(bullets, x, y))

NextIndent ==
    \/ LoadInvalid
    \/ LoadOk
    \/ KeyUp
    \/ KeyDown
    \/ ShiftRight
    \/ ShiftLeft

SpecIndent == InitFlat /\ [][NextIndent]_vars

-----------------------------------------------------------------------------
(* One edit operation applied to a loaded document, with the cursor where *)
(* the four movements have taken it                                       *)

\* From one getch to the next: the key of the edit is handled, the handler
\* returning r, and the next pass draws the document
Once(r) ==
    /\ pc = "loop"
    /\ IF r.err
       THEN pc' = "error" /\ UNCHANGED <<bullets, x, y, drawn>>
       ELSE /\ bullets' = r.bullets
            /\ x' = r.x
            /\ y' = r.y
            /\ drawn' = print_bullets(height, r.bullets, r.x, r.y)
            /\ pc' = "edited"
    /\ UNCHANGED <<file, errline, height, lst, cursor, ret>>

OnceDedent == Once(dedent(bullets, x, y))
OnceEnter == Once(add_bullet(bullets, x, y))
OnceTab == Once(indent(bullets, x, y))
OnceDelete == Once(delete(bullets, x, y))
OnceBackspace == Once(backspace(bullets, x, y))
OnceChar == \E ch \in TypedChars : Once(insert_char(bullets, x, y, ch))

NextOnce ==
    \/ LoadInvalid
    \/ LoadOk
    \/ KeyUp
    \/ KeyDown
    \/ KeyLeft
    \/ KeyRight
    \/ OnceDedent
    \/ OnceEnter
    \/ OnceTab
    \/ OnceDelete
    \/ OnceBackspace
    \/ OnceChar

SpecOnce == InitRaw /\ [][NextOnce]_vars

-----------------------------------------------------------------------------
(* The document drawn on a terminal of any height, as the four cursor keys *)
(* walk it, and a single line drawn at any depth                           *)

InitTerminal == Loading(Texts(MaxRaw), Heights)

NextRender ==
    \/ LoadInvalid
    \/ LoadOk
    \/ KeyUp
    \/ KeyDown
    \/ KeyLeft
    \/ KeyRight

SpecRender == InitTerminal /\ [][NextRender]_vars

\* The same keys on the tallest terminal alone
SpecKeys == InitRaw /\ [][NextRender]_vars

\* A file of one line, indented up to MaxPad columns
Bodies == UNION {[1..k -> Chars \ {NL}] : k \in 0..MaxBody}
InitPadded == Loading({Spaces(k) \o t : k \in 0..MaxPad, t \in Bodies}, Heights)

NextFormat ==
    \/ LoadInvalid
    \/ LoadOk

SpecFormat == InitPadded /\ [][NextFormat]_vars

-----------------------------------------------------------------------------
(* Vocabulary of the properties *)

\* The cursor is on a row of the document
RowValid == 0 <= y /\ y < Len(bullets)

\* The line under the cursor, and the columns left of its content
CurrentLine == bullets[y + 1]
Nontext == get_whitespace_len(CurrentLine) + 2

\* A line is a bullet: indentation, the marker and one separating space
IsBullet(line) ==
    /\ Len(line) >= get_whitespace_len(line) + 2
    /\ line[get_whitespace_len(line) + 1] = "-"
    /\ line[get_whitespace_len(line) + 2] = " "

\* The text of the file seen as lines: the positions of its line breaks, with
\* one position before the text and one after it
Fences == {i \in 1..Len(file) : file[i] = NL} \cup {0, Len(file) + 1}
LineCount == Cardinality(Fences) - 1
Fence(k) == CHOOSE b \in Fences : Cardinality({c \in Fences : c < b}) = k
LineText(k) == SubSeq(file, Fence(k - 1) + 1, Fence(k) - 1)

\* Line k of the file is not empty and its first character that is not a
\* space is not the marker
Malformed(k) ==
    /\ Fence(k) - Fence(k - 1) > 1
    /\ ~\E j \in (Fence(k - 1) + 1)..(Fence(k) - 1) :
            /\ file[j] = "-"
            /\ \A i \in (Fence(k - 1) + 1)..(j - 1) : file[i] = " "

MalformedLines == {k \in 1..LineCount : Malformed(k)}

\* The window make_printable_sublist returned, as (start, length)
WindowStart == cursor - ret.cursor
WindowLength == Len(ret.sublist)
CursorInList == 0 <= cursor /\ cursor < Len(lst)

-----------------------------------------------------------------------------
(* Properties *)

\* C1: after any sequence of key events on a loaded document the cursor row
\* is an index into the document, 0 <= row < line count.
RowAlwaysValid == pc = "loop" => RowValid

\* C2: after any sequence of cursor movements from the initial cursor the
\* column satisfies nontext_length <= col <= max(len(line) - 1, nontext_length).
ColumnAlwaysLegal ==
    (pc = "loop" /\ RowValid) =>
        /\ Nontext <= x
        /\ x <= Max(Len(CurrentLine) - 1, Nontext)

\* C3: no sequence of key events on a loaded document makes an operation raise.
NeverRaises == pc # "error"

\* C4, as claimed: for every height >= 0 the window holds the cursor's line,
\* start <= cursor_row < start + length.
WindowHoldsCursor ==
    (pc = "windowed" /\ Len(lst) >= 1 /\ CursorInList) =>
        /\ WindowStart <= cursor
        /\ cursor < WindowStart + WindowLength
        /\ ret.sublist[cursor - WindowStart + 1] = lst[cursor + 1]

\* C4, amended: for every height >= 1 the window holds the cursor's line,
\* start <= cursor_row < start + length.
WindowHoldsCursorWhenTall ==
    (pc = "windowed" /\ Len(lst) >= 1 /\ CursorInList /\ height >= 1) =>
        /\ WindowStart <= cursor
        /\ cursor < WindowStart + WindowLength
        /\ ret.sublist[cursor - WindowStart + 1] = lst[cursor + 1]

\* C4 witness: a window of a list longer than the height that does not start
\* at line 0
WindowScrolled ==
    /\ pc = "windowed"
    /\ CursorInList
    /\ height >= 1
    /\ Len(lst) > height
    /\ WindowStart > 0
    /\ WindowStart < cursor

\* C5: the window is a contiguous range of the document of length
\* min(height, total_lines): the whole document when total_lines < height,
\* exactly height lines otherwise.
WindowLengthIsMin ==
    (pc = "windowed" /\ (CursorInList \/ Len(lst) = 0)) =>
        /\ WindowLength = Min(height, Len(lst))
        /\ Len(lst) < height => ret.sublist = lst
        /\ \E s \in 0..Len(lst) :
               /\ s + WindowLength <= Len(lst)
               /\ \A i \in 1..WindowLength : ret.sublist[i] = lst[s + i]

\* C5 witness: a centred window that would run past the end of the document
\* and is pushed back to end at its last line
WindowPushedBack ==
    /\ pc = "windowed"
    /\ CursorInList
    /\ height >= 2
    /\ cursor - (height \div 2) + height > Len(lst)
    /\ WindowLength = height
    /\ WindowStart = Len(lst) - height
    /\ WindowStart > 0

\* C6: load fails iff some non-empty line's trimmed form does not start with
\* the marker; the error names the first such line, counted from 1; on
\* success the document is the text split at its line breaks, nothing altered.
LoadContract ==
    pc # "load" =>
        /\ pc = "invalid" <=> MalformedLines # {}
        /\ pc = "invalid" =>
               /\ errline \in MalformedLines
               /\ \A k \in MalformedLines : errline <= k
        /\ pc = "loop" =>
               /\ Len(bullets) = LineCount
               /\ \A k \in 1..LineCount : bullets[k] = LineText(k)

\* C6 witness: a text refused for its third line, after an empty first line
\* and a well-formed second one
LoadRefusedThirdLine ==
    /\ pc = "invalid"
    /\ errline = 3
    /\ LineText(1) = <<>>
    /\ LineText(2) # <<>>
    /\ LineCount >= 4

\* C7: after any sequence of edits and movements every non-empty line's
\* trimmed form starts with the marker.
EveryLineKeepsMarker ==
    pc \in {"loop", "done"} =>
        \A i \in 1..Len(bullets) :
            bullets[i] # <<>> => startswith(strip(bullets[i]), "-")

\* C8: backspace with the cursor at col = nontext_length(row) of a bullet
\* line changes neither the document nor the cursor.
BackspaceAtFirstColumnIsNoOp ==
    [][(KeyBackspace /\ RowValid /\ IsBullet(CurrentLine) /\ x = Nontext)
          => UNCHANGED <<bullets, x, y>>]_vars

\* C9: the new-line key on row r of a bullet line inserts at r+1 the line
\* made of row r's indentation, the marker and one space, keeps every other
\* line, and puts the cursor at (r+1, nontext_length(r+1)).
EnterInsertsEmptySibling ==
    [][(KeyEnter /\ RowValid /\ IsBullet(CurrentLine))
          => /\ bullets' = SubSeq(bullets, 1, y + 1)
                             \o <<Spaces(get_whitespace_len(CurrentLine)) \o <<"-", " ">>>>
                             \o SubSeq(bullets, y + 2, Len(bullets))
             /\ y' = y + 1
             /\ x' = get_whitespace_len(bullets'[y' + 1]) + 2]_vars

\* The cursor is on the last line, at or right of its first content column,
\* and a step of n would carry it past the last offset len(line) - 1
PastEndOfLastLine(n) ==
    /\ pc = "loop"
    /\ RowValid
    /\ y = Len(bullets) - 1
    /\ Nontext <= x
    /\ x + n > Len(CurrentLine) - 1

\* C10: move_right(n) on the last line, from a column of its
\* content, with col + n past the last offset len(line) - 1 ends at
\* col = len(line) - 1 on the same row.
RightSaturatesOnLastLine ==
    \A n \in Steps :
        (PastEndOfLastLine(n) /\ x <= Len(CurrentLine) - 1) =>
            right(bullets, x, y, n) = At(Len(CurrentLine) - 1, y)

\* The indentation lengths of the lines of a document
Depths(bs) == [i \in 1..Len(bs) |-> get_whitespace_len(bs[i])]
Aligned(bs) == \A i \in 1..Len(bs) : Depths(bs)[i] % INDENT = 0

\* C11: indent with the cursor on row r prepends exactly INDENT spaces to line
\* r, so that its indentation grows by INDENT, leaves every other line, the
\* line count and the cursor row unchanged, and advances the column by INDENT.
IndentPrependsOneLevel ==
    [][(ShiftRight /\ RowValid)
          => /\ Len(bullets') = Len(bullets)
             /\ \A i \in 1..Len(bullets) :
                    bullets'[i] = IF i = y + 1
                                  THEN [k \in 1..INDENT |-> " "] \o bullets[i]
                                  ELSE bullets[i]
             /\ Depths(bullets')[y + 1] = Depths(bullets)[y + 1] + INDENT
             /\ y' = y
             /\ x' = x + INDENT]_vars

\* C11 witness: three lines loaded at depths [0, 0, 0] that stand at depths
\* [0, 1, 1] with the cursor on row 2, moved right by the indent
IndentedThirdLine ==
    /\ pc = "loop"
    /\ Depths(split(file)) = <<0, 0, 0>>
    /\ Depths(bullets) = <<0, INDENT, INDENT>>
    /\ y = 2
    /\ x = 2 * INDENT

\* C12: dedent on a line whose indentation length is 0 changes neither the
\* document nor the cursor row and column.
DedentAtDepthZeroIsNoOp ==
    (pc = "loop" /\ RowValid /\ get_whitespace_len(CurrentLine) = 0) =>
        dedent(bullets, x, y) = Edited(bullets, x, y)

\* C12 witness: the cursor on an unindented bullet with text, below an
\* indented line, where the shift-tab key is taken and dedent returns the
\* document and the cursor as they are
DedentOnFlatLine ==
    /\ pc = "loop"
    /\ y = 1
    /\ Len(bullets) = 2
    /\ Depths(bullets) = <<INDENT, 0>>
    /\ Len(CurrentLine) >= 3
    /\ dedent(bullets, x, y) = Edited(bullets, x, y)
    /\ ENABLED ShiftLeft

\* C13: when every line of the loaded document has an indentation length that
\* is a multiple of INDENT, then after any sequence of indent and dedent at
\* any rows every line's indentation length is a multiple of INDENT, and not
\* negative.
IndentationStaysAligned ==
    (pc = "loop" /\ Aligned(split(file))) =>
        /\ Aligned(bullets)
        /\ \A i \in 1..Len(bullets) : Depths(bullets)[i] >= 0

\* C13 witness: a document loaded aligned with no line deeper than one level,
\* in which indent has taken a line to the second level and dedent another
\* line back to depth 0
IndentedTwoLevels ==
    /\ pc = "loop"
    /\ Aligned(split(file))
    /\ Len(bullets) = 2
    /\ Depths(split(file)) = <<0, INDENT>>
    /\ Depths(bullets) = <<2 * INDENT, 0>>

\* The number of characters of the lines of a document
RECURSIVE TotalLength(_)
TotalLength(bs) == IF bs = <<>> THEN 0 ELSE Len(Head(bs)) + TotalLength(Tail(bs))

\* C15: for every valid document D, serialize(load(serialize(D))) =
\* serialize(D), where serialize puts one line break between two lines and
\* none after the last, and load splits at the line breaks and validates.
SerializeLoadRoundTrip ==
    pc = "loop" =>
        LET text == update_file(bullets)
        IN  /\ Len(text) = TotalLength(bullets) + Len(bullets) - 1
            /\ \A i \in 1..Len(text) :
                   text[i] = NL <=>
                       \E k \in 1..(Len(bullets) - 1) :
                           i = TotalLength(SubSeq(bullets, 1, k)) + k
            /\ ~validate_file(text).raised
            /\ update_file(validate_file(text).bullets) = text

\* C15 witness: a loaded document of four lines, the second and the last
\* empty, whose text is loaded again and written as the same text
RoundTripWithEmptyLines ==
    /\ pc = "loop"
    /\ bullets = << <<"-">>, <<>>, <<"-">>, <<>> >>
    /\ update_file(bullets) = <<"-", NL, NL, "-", NL>>
    /\ validate_file(update_file(bullets)).bullets = bullets
    /\ update_file(validate_file(update_file(bullets)).bullets)
           = update_file(bullets)

\* A line has at least one character after its indentation, marker and space
HasContent(line) == Len(line) >= get_whitespace_len(line) + 3
AllHaveContent == \A i \in 1..Len(bullets) : HasContent(bullets[i])

\* The cursor is on a row of the document and inside the legal range of its
\* line
CursorLegal ==
    /\ RowValid
    /\ Nontext <= x
    /\ x <= Max(Len(CurrentLine) - 1, Nontext)

\* The cursor right and left are specified to return for a step of 1
RightByOne ==
    IF x < Len(CurrentLine) - 1 THEN At(x + 1, y)
    ELSE IF y + 1 < Len(bullets)
         THEN At(get_whitespace_len(bullets[y + 2]) + 2, y + 1)
         ELSE At(x, y)

LeftByOne ==
    IF x > Nontext THEN At(x - 1, y)
    ELSE IF y >= 1 THEN At(Len(bullets[y]) - 1, y - 1)
         ELSE At(x, y)

\* C18: with a step of 1, on a document whose lines all have content and
\* with the cursor in its legal range, right goes to (row, col + 1) when
\* col < len(line) - 1, else to the first content column of the next line when
\* there is one, else nowhere; left goes to (row, col - 1) when
\* col > nontext_length(row), else to the last offset of the previous line
\* when there is one, else nowhere; neither changes the document.
SingleStepLeftRight ==
    /\ []((pc = "loop" /\ AllHaveContent /\ CursorLegal) =>
              /\ right(bullets, x, y, 1) = RightByOne
              /\ left(bullets, x, y, 1) = LeftByOne)
    /\ [][(MoveRight(1) \/ MoveLeft(1)) => bullets' = bullets]_vars

\* C18 witness: the cursor at the only content column of the second of two
\* lines, from where left goes to the last offset of the first line and right
\* goes nowhere
LeftWrapsToPreviousLine ==
    /\ pc = "loop"
    /\ bullets = << <<"-", " ", "a">>, <<"-", " ", "a">> >>
    /\ y = 1
    /\ x = 2
    /\ left(bullets, x, y, 1) = At(2, 0)
    /\ right(bullets, x, y, 1) = At(2, 1)
    /\ ENABLED MoveLeft(1)

\* C19: in right and left, for every requested step n >= 1 and every line the
\* cursor can be on, the step used is min(max(n, 1), len(line) - 1); it is
\* never 0 or negative, so that right never decreases the column and left
\* never increases it within a line.
StepClampedIntoLine ==
    \A n \in Steps :
        (pc = "loop" /\ RowValid) =>
            /\ clamped_characters(bullets, y, n)
                   = Min(Max(n, 1), Len(CurrentLine) - 1)
            /\ clamped_characters(bullets, y, n) >= 1
            /\ right(bullets, x, y, n).y = y => right(bullets, x, y, n).x >= x
            /\ left(bullets, x, y, n).y = y => left(bullets, x, y, n).x <= x

\* One pass of the loop that applied an edit operation
EditKey ==
    /\ \/ KeyTab
       \/ KeyDedent
       \/ KeyEnter
       \/ KeyDelete
       \/ KeyChar
       \/ KeyBackspace
    /\ pc' = "loop"

\* C16: with autosave, once an edit operation (indent, dedent, new line,
\* delete line, insert character, delete character) has been applied, the
\* text in the file is the serialization of the document before the next key
\* is read.
EditIsSavedAtOnce ==
    [][EditKey => file' = update_file(bullets')]_vars

\* Every line is a bullet with content: indentation, marker, space, text
AllBulletsWithContent ==
    \A i \in 1..Len(bullets) : IsBullet(bullets[i]) /\ HasContent(bullets[i])

\* C17: each edit operation (new line, indent, dedent, delete line, insert
\* character, delete character), applied to a document of at least two lines
\* that all have content, with 0 <= row < line count and
\* nontext_length(row) <= col <= max(len(line) - 1, nontext_length(row)),
\* yields a state where the same bounds hold for the new cursor and document.
EditKeepsCursorLegal ==
    [][((OnceEnter \/ OnceTab \/ OnceDedent \/ OnceDelete \/ OnceChar
             \/ OnceBackspace)
          /\ Len(bullets) >= 2 /\ AllBulletsWithContent /\ CursorLegal)
          => /\ pc' = "edited"
             /\ CursorLegal']_vars

\* The number of spaces a line starts with
LeadingSpaces(line) ==
    CHOOSE k \in 0..Len(line) :
        /\ \A i \in 1..k : line[i] = " "
        /\ k < Len(line) => line[k + 1] # " "

\* The glyphs of the depths 0, 1, 2, 3, ...: primary, secondary, tertiary,
\* primary, ...
Palette(d) ==
    CASE d % 3 = 0 -> "U+2022"
      [] d % 3 = 1 -> "U+25E6"
      [] d % 3 = 2 -> "U+25AA"

\* The lines the pass of print_bullets had to show
Shown == make_printable_sublist(height, bullets, y).sublist

\* C14: for every valid raw line at depth d = indentation length / INDENT the
\* line drawn is the line with only its marker replaced by the glyph of
\* d mod 3; the indentation and the content, any '-' of the content included,
\* are unchanged, and the line drawn depends on the raw line only.
FormatReplacesMarkerOnly ==
    pc = "loop" =>
        /\ Len(drawn.rows) = Len(Shown)
        /\ \A r \in 1..Len(Shown) :
               LET line == Shown[r]
                   out == drawn.rows[r]
                   k == LeadingSpaces(line)
               IN  (k < Len(line) /\ line[k + 1] = "-") =>
                       /\ Len(out) = Len(line)
                       /\ out[k + 1] = Palette(k \div INDENT)
                       /\ \A j \in 1..Len(line) : j # k + 1 => out[j] = line[j]
                       /\ out = format_bullet(line)

\* C14 witness: a line at depth 3 whose content is a '-', drawn with the
\* primary glyph for its marker and the '-' of its content kept
DeepBulletDrawn ==
    /\ pc = "loop"
    /\ bullets = << Spaces(3 * INDENT) \o <<"-", " ", "-">> >>
    /\ drawn.rows = << Spaces(3 * INDENT) \o <<"U+2022", " ", "-">> >>

\* C20: in every render pass with a height >= 1 and the cursor on a content
\* character of a line of the document, the cell drawn highlighted is the one
\* on screen row cursor_row - window start at the cursor's column, and no
\* other cell is highlighted, also when the window does not start at line 0.
HighlightOnCursorRow ==
    (pc = "loop" /\ height >= 1 /\ RowValid
        /\ Nontext <= x /\ x < Len(CurrentLine)) =>
        LET start == y - make_printable_sublist(height, bullets, y).cursor
        IN  drawn.reversed = {<<y - start, x>>}

====
